---- MODULE Spec2Model ----
(***************************************************************************)
(* Instadrive backend: customers, locations and cars kept in a relational  *)
(* store, with single-record create/update/delete handlers and bulk        *)
(* import of tab-separated files (Services/customer_router.py,             *)
(* Services/location_router.py, Services/car_router.py, database.py).      *)
(*                                                                         *)
(* The store is the committed content of the three tables.  Every request  *)
(* runs with its own session (database.py get_db): rows written by a bulk  *)
(* write stay pending in the session's transaction until db.commit() and   *)
(* are dropped by db.rollback().  An import is modelled step by step       *)
(* (start, one step per data row, final flush, commit) so that requests    *)
(* served by different workers interleave at their storage operations.     *)
(***************************************************************************)
EXTENDS Integers, Sequences, FiniteSets, TLC

(* ---------------------------------------------------------------------- *)
(* Bounds of the model.                                                    *)
(* ---------------------------------------------------------------------- *)

\* Number of import requests in a run (each request slot serves one import).
MaxReqs == 2

\* Largest number of data rows in an uploaded file.
MaxRows == 3

\* Flush threshold of the batcher.  The routers set batch_size = 100
\* (customer_router.py:180, location_router.py:318); the model runs the same
\* code with a small threshold so that files of at most MaxRows rows reach
\* threshold flushes, partial final batches and rows after a flush.
batch_size == 2

\* Number of single-record requests (create/update/delete) in a run that
\* has an import; a run without one has one more.
MaxCrud == 2

Reqs == 1..MaxReqs

(* ---------------------------------------------------------------------- *)
(* Uploaded files: what csv.DictReader yields.                             *)
(* ---------------------------------------------------------------------- *)

\* csv.DictReader gives a row that is shorter than the header the value
\* None (restval) for every column it lacks.
NoneVal == "<None>"

\* row.get(col, default) on a column the header does not have.
Absent == "<absent>"

\* The header lines of the uploaded files: one with the required columns and
\* two of the optional ones, and one that lacks a required column.  No file
\* of the model has an address column.
CustomerHeaders ==
    { <<"name", "email", "phone", "preferences">>, <<"name", "phone">> }

LocationHeaders ==
    { <<"name", "address", "latitude", "longitude", "is_pickup_location">>,
      <<"name", "address", "latitude">> }

\* A data row: the number of cells on the line and the text of the cells
\* the handlers look at (cells beyond the header are ignored by the code).
CustomerRows ==
    { [cells |-> 4, name |-> "Ann", email |-> "a@x",  phone |-> "555",
       preferences |-> "vip"],
      [cells |-> 3, name |-> "Bob", email |-> " b@x", phone |-> "",
       preferences |-> "{}"],
      [cells |-> 2, name |-> "Cy",  email |-> "a@x",  phone |-> "555",
       preferences |-> "{}"] }

LocationRows ==
    { [cells |-> 5, name |-> "Hub", address |-> "Main St 1",
       latitude |-> "-90", longitude |-> "180", is_pickup_location |-> "True"],
      [cells |-> 5, name |-> "Far", address |-> "Main St 2",
       latitude |-> "95.0", longitude |-> "18.0", is_pickup_location |-> "no"],
      [cells |-> 5, name |-> "Bad", address |-> "Main St 3",
       latitude |-> "59.3", longitude |-> "abc", is_pickup_location |-> "True"] }

\* A header check that asks for the name column only.
required_fields_name_only(kind) == {"name"}

\* required_fields of the two imports (customer_router.py:173,
\* location_router.py:311).
required_fields(kind) ==
    IF kind = "customers" THEN {"name", "email"}
    ELSE {"name", "address", "latitude", "longitude"}

Range(s) == { s[i] : i \in DOMAIN s }

IndexOf(header, col) == CHOOSE i \in DOMAIN header : header[i] = col

\* row[col] / row.get(col): the cell under column col, None when the line
\* is too short to have it, Absent when the header has no such column.
Cell(header, row, col) ==
    IF col \notin Range(header) THEN Absent
    ELSE IF IndexOf(header, col) <= row.cells THEN row[col]
    ELSE NoneVal

\* row.get(col, default)
Get(header, row, col, default) ==
    LET c == Cell(header, row, col) IN IF c = Absent THEN default ELSE c

\* str.strip() on the cell texts of the model.
Strip(s) ==
    IF s = " b@x" THEN "b@x" ELSE s

\* str.lower() on the cell texts of the model.
Lower(s) ==
    IF s = "True" THEN "true" ELSE s

\* float(s): the value in tenths of a degree, or the exception raised.
ParseFloat(s) ==
    CASE s = "59.3" -> [ok |-> TRUE, val |-> 593, exc |-> ""]
      [] s = "18.0" -> [ok |-> TRUE, val |-> 180, exc |-> ""]
      [] s = "-90"  -> [ok |-> TRUE, val |-> -900, exc |-> ""]
      [] s = "180"  -> [ok |-> TRUE, val |-> 1800, exc |-> ""]
      [] s = "95.0" -> [ok |-> TRUE, val |-> 950, exc |-> ""]
      [] s = NoneVal -> [ok |-> FALSE, val |-> 0, exc |-> "TypeError"]
      [] OTHER      -> [ok |-> FALSE, val |-> 0, exc |-> "ValueError"]


(* ---------------------------------------------------------------------- *)
(* Row validators: the body of the per-row try block.                      *)
(* ---------------------------------------------------------------------- *)

NoId == << 0, 0 >>

NoRecord == [id |-> NoId]

\* A JSON object as the set of its members; {} is the empty object.
EmptyMap == {}

\* json.loads(s) on the cell texts of the model: the value, or the exception
\* raised (TypeError for None, JSONDecodeError for text that is no JSON).
json_loads(s) ==
    CASE s = "{}" -> [ok |-> TRUE, val |-> EmptyMap, exc |-> ""]
      [] s = "{\"vip\": true}" -> [ok |-> TRUE, val |-> {<< "vip", TRUE >>}, exc |-> ""]
      [] s = NoneVal -> [ok |-> FALSE, val |-> EmptyMap, exc |-> "TypeError"]
      [] OTHER -> [ok |-> FALSE, val |-> EmptyMap, exc |-> "JSONDecodeError"]

\* customer_router.py:49-56: the parsed value, {} when json.loads raised
\* JSONDecodeError or TypeError; it raises nothing itself.
parse_preferences(preferences_str) ==
    LET j == json_loads(preferences_str)
    IN  [ok |-> TRUE, val |-> IF j.ok THEN j.val ELSE EmptyMap, exc |-> ""]

\* customer_router.py:186-197.  .strip() on None raises AttributeError.
customer_row(header, row, id, now) ==
    LET name  == Cell(header, row, "name")
        email == Cell(header, row, "email")
        phone == Get(header, row, "phone", "")
        address == Get(header, row, "address", "")
        preferences == parse_preferences(Get(header, row, "preferences", "{}"))
    IN  IF name = NoneVal \/ email = NoneVal \/ phone = NoneVal \/ address = NoneVal
        THEN [ok |-> FALSE, error |-> "AttributeError", rec |-> NoRecord]
        ELSE IF ~preferences.ok
        THEN [ok |-> FALSE, error |-> preferences.exc, rec |-> NoRecord]
        ELSE [ok |-> TRUE, error |-> "",
              rec |-> [id |-> id,
                       name |-> Strip(name),
                       email |-> Strip(email),
                       phone |-> IF Strip(phone) = "" THEN NoneVal ELSE Strip(phone),
                       address |-> IF Strip(address) = "" THEN NoneVal
                                   ELSE Strip(address),
                       preferences |-> preferences.val,
                       is_active |-> TRUE,
                       created_at |-> now,
                       updated_at |-> now]]

\* The two ranges taken for each other.
CoordinatesInRange_swapped(latitude, longitude) ==
    /\ -1800 <= latitude /\ latitude <= 1800
    /\ -900 <= longitude /\ longitude <= 900

\* location_router.py:328: -90 <= latitude <= 90 and -180 <= longitude <= 180
\* (coordinates in tenths of a degree).
CoordinatesInRange(latitude, longitude) ==
    /\ -900 <= latitude /\ latitude <= 900
    /\ -1800 <= longitude /\ longitude <= 1800

\* location_router.py:323-348.
location_row(header, row, id, now) ==
    LET lat    == ParseFloat(Cell(header, row, "latitude"))
        long   == ParseFloat(Cell(header, row, "longitude"))
        pickup == Get(header, row, "is_pickup_location", "true")
        name   == Cell(header, row, "name")
        addr   == Cell(header, row, "address")
        fail(e) == [ok |-> FALSE, error |-> e, rec |-> NoRecord]
    IN  IF ~lat.ok THEN
            fail(IF lat.exc = "ValueError" THEN "Invalid coordinates" ELSE lat.exc)
        ELSE IF ~long.ok THEN
            fail(IF long.exc = "ValueError" THEN "Invalid coordinates" ELSE long.exc)
        ELSE IF ~CoordinatesInRange(lat.val, long.val) THEN
            fail("Invalid coordinates")
        ELSE IF pickup = NoneVal \/ name = NoneVal \/ addr = NoneVal THEN
            fail("AttributeError")
        ELSE [ok |-> TRUE, error |-> "",
              rec |-> [id |-> id,
                       name |-> Strip(name),
                       address |-> Strip(addr),
                       latitude |-> lat.val,
                       longitude |-> long.val,
                       is_pickup_location |-> (Lower(pickup) = "true"),
                       is_active |-> TRUE,
                       created_at |-> now,
                       updated_at |-> now]]

validate_row(kind, header, row, id, now) ==
    IF kind = "customers" THEN customer_row(header, row, id, now)
    ELSE location_row(header, row, id, now)

Headers(kind) == IF kind = "customers" THEN CustomerHeaders ELSE LocationHeaders

Rows(kind) == IF kind = "customers" THEN CustomerRows ELSE LocationRows

(* ---------------------------------------------------------------------- *)
(* The store: tables, unique constraints, sessions.                        *)
(* ---------------------------------------------------------------------- *)

VARIABLES
    customers,   \* committed rows of table customers
    locations,   \* committed rows of table locations
    cars,        \* committed rows of table cars
    pc,          \* pc[r]: where import request r stands
    kind,        \* kind[r]: "customers" or "locations" (the router serving r)
    header,      \* header[r]: reader.fieldnames
    result,      \* result[r]: the ImportResult being built
    batch,       \* batch[r]: the accumulator
    pending,     \* pending[r]: rows written in r's open transaction
    txActive,    \* txActive[r]: FALSE once a write of the transaction failed
    resp,        \* resp[r]: the response of request r
    seen,        \* seen[r]: the data rows read so far, each with the id drawn for it
    keys,        \* keys[r]: the emails of the rows of r's file that passed validation
    db,          \* db[r]: the session of request r, as get_db hands it out
    crudCount,   \* single-record requests served so far
    last         \* the single-record request served last, with its response

vars == << customers, locations, cars, pc, kind, header, result, batch,
           pending, txActive, resp, seen, keys, db, crudCount, last >>

storeVars == << customers, locations, cars >>

importVars == << pc, kind, header, result, batch, pending, txActive, resp, seen, keys,
                 db >>

crudVars == << crudCount, last >>

\* datetime.utcnow() as an import reads it: time is counted in single-record
\* requests, and no such request is served while an import runs.
import_utcnow == crudCount

\* datetime.utcnow() as a single-record handler reads it: the ordinal of the
\* request, later than every reading before it.
utcnow == { crudCount + 1 }

\* str(uuid.uuid4()): an identifier no other call returns.  Row n of import
\* request r draws << r, n >>; the n-th single-record request draws << 0, n >>.
uuid4(r, n) == << r, n >>

Table(k) == IF k = "customers" THEN customers ELSE locations

\* Tables whose only constraint is the primary key.
Collide_ids_only(k, a, b) == a.id = b.id

\* A unique email among the active customers only.
Collide_active_only(k, a, b) ==
    \/ a.id = b.id
    \/ k = "customers" /\ a.email = b.email /\ a.is_active /\ b.is_active
    \/ k = "cars" /\ (a.license_plate = b.license_plate \/ a.vin = b.vin)

\* Models/customer.py:10-11: id is the primary key, email is unique.
\* Models/location.py:11: id is the primary key.
\* Models/car.py:11-13: id is the primary key, license_plate and vin are unique.
Collide(k, a, b) ==
    \/ a.id = b.id
    \/ k = "customers" /\ a.email = b.email
    \/ k = "cars" /\ (a.license_plate = b.license_plate \/ a.vin = b.vin)

\* The store rejects an insert of the records recs (a sequence) when two of
\* them collide or one collides with a row it already holds.
UniqueViolation(k, recs, held) ==
    \/ \E i, j \in DOMAIN recs : i # j /\ Collide(k, recs[i], recs[j])
    \/ \E i \in DOMAIN recs : \E x \in held : Collide(k, recs[i], x)

\* db.bulk_save_objects(batch): the exception it raises, "" when it returns.
\* A session whose transaction was rolled back by a failed write refuses
\* every further write until db.rollback(); fault stands for a failure of
\* the storage layer other than a constraint violation.
bulk_save_objects(k, recs, held, active, fault) ==
    IF ~active THEN "InvalidRequestError"
    ELSE IF fault THEN "OperationalError"
    ELSE IF UniqueViolation(k, recs, held) THEN "IntegrityError"
    ELSE ""

\* db.commit() of an import: the exception it raises, "" when the
\* transaction commits.
commit(k, pend, table, active, fault) ==
    IF ~active THEN "InvalidRequestError"
    ELSE IF fault THEN "OperationalError"
    ELSE IF \E p \in pend : \E x \in table : Collide(k, p, x) THEN "IntegrityError"
    ELSE ""

\* The table after db.commit() returned: the pending rows are part of it.
committed(table, pend) == table \cup pend

\* An except clause that leaves what the session had flushed in the table.
rollback_missing(table, pend) == table \cup pend

\* The table after db.rollback(): the pending rows are discarded.
rollback(table, pend) == table

\* A session that commits every bulk write on its own.
written_autocommit(table, recs) == table \cup recs

\* The table after db.bulk_save_objects(recs) returned: unchanged, as the
\* session does not commit on its own (database.py:29, autocommit=False).
written(table, recs) == table

\* The except clause of the import (customer_router.py:216-221,
\* location_router.py:368-373): whatever was raised inside the try block is
\* answered with status 500.
import_except(exc) == [status |-> 500, detail |-> exc]

EmptyResult == [total |-> 0, successful |-> 0, failed |-> << >>]

NoResponse == [status |-> 0, detail |-> "", result |-> EmptyResult]

Error(e) == [status |-> e.status, detail |-> e.detail, result |-> EmptyResult]

(* ---------------------------------------------------------------------- *)
(* Initial state: empty tables, no request started.                        *)
(* ---------------------------------------------------------------------- *)

\* A session as get_db sees it: how often SessionLocal() handed it out and
\* how often db.close() was called on it.
NoSession == [acquired |-> 0, closed |-> 0]

\* db = SessionLocal()
SessionLocal == [acquired |-> 1, closed |-> 0]

\* A dependency without the finally clause: db.close() follows the yield
\* only when the handler returned.
get_db_exit_on_return(session, status) ==
    IF status < 400 THEN [session EXCEPT !.closed = @ + 1] ELSE session

\* get_db after the yield: "finally: db.close()" runs however the handler
\* ended, with a response or with an HTTPException.
get_db_exit(session, status) == [session EXCEPT !.closed = @ + 1]

NoLast == [op |-> "none", status |-> 0, id |-> NoId, body |-> [fields |-> {}],
           found |-> NoRecord, db |-> NoSession]

Init ==
    /\ customers = {}
    /\ locations = {}
    /\ cars = {}
    /\ pc = [r \in Reqs |-> "idle"]
    /\ kind = [r \in Reqs |-> "none"]
    /\ header = [r \in Reqs |-> << >>]
    /\ result = [r \in Reqs |-> EmptyResult]
    /\ batch = [r \in Reqs |-> << >>]
    /\ pending = [r \in Reqs |-> {}]
    /\ txActive = [r \in Reqs |-> TRUE]
    /\ resp = [r \in Reqs |-> NoResponse]
    /\ seen = [r \in Reqs |-> << >>]
    /\ keys = [r \in Reqs |-> {}]
    /\ db = [r \in Reqs |-> NoSession]
    /\ crudCount = 0
    /\ last = NoLast

(* ---------------------------------------------------------------------- *)
(* Import: import_customers / import_locations and *_from_tsv.             *)
(* ---------------------------------------------------------------------- *)

\* The request is over: its response is out, the handler's locals are gone
\* and the session is closed (database.py:41-42), which drops whatever was
\* still pending in it.
Return(r, response) ==
    /\ resp' = [resp EXCEPT ![r] = response]
    /\ db' = [db EXCEPT ![r] = get_db_exit(@, response.status)]
    /\ pc' = [pc EXCEPT ![r] = "done"]
    /\ pending' = [pending EXCEPT ![r] = {}]
    /\ txActive' = [txActive EXCEPT ![r] = TRUE]
    /\ header' = [header EXCEPT ![r] = << >>]
    /\ result' = [result EXCEPT ![r] = EmptyResult]
    /\ batch' = [batch EXCEPT ![r] = << >>]
    /\ seen' = [seen EXCEPT ![r] = << >>]

\* The endpoint up to the row loop: file name, decoding, header
\* (customer_router.py:157-181, location_router.py:295-319).  Requests are
\* numbered in their order of arrival; resp and keys keep what is known of
\* the requests in flight and of the one answered last.
import_start(r, kinds) ==
    /\ pc[r] = "idle"
    /\ IF r = 1 THEN TRUE ELSE pc[r - 1] # "idle"
    /\ \E k \in kinds, tsv \in BOOLEAN, utf8 \in BOOLEAN :
       \E h \in Headers(k) :
        LET answer ==
                IF ~tsv THEN
                    Error([status |-> 400, detail |-> "Only TSV files are supported"])
                ELSE IF ~utf8 THEN
                    Error(import_except("UnicodeDecodeError"))
                ELSE IF ~(required_fields(k) \subseteq Range(h)) THEN
                    \* HTTPException(400) raised inside the try block
                    Error(import_except("400: Missing required fields"))
                ELSE NoResponse
        IN  /\ kind' = [s \in Reqs |-> IF s = r THEN k
                                       ELSE IF pc[s] = "done" THEN "none" ELSE kind[s]]
            /\ keys' = [s \in Reqs |-> IF pc[s] = "done" THEN {} ELSE keys[s]]
            /\ resp' = [s \in Reqs |-> IF s = r THEN answer
                                       ELSE IF pc[s] = "done" THEN NoResponse ELSE resp[s]]
            /\ db' = [s \in Reqs |->
                        IF s = r THEN
                            IF answer = NoResponse THEN SessionLocal
                            ELSE get_db_exit(SessionLocal, answer.status)
                        ELSE db[s]]
            /\ pc' = [pc EXCEPT ![r] = IF answer = NoResponse THEN "rows" ELSE "done"]
            /\ header' = [header EXCEPT ![r] = IF answer = NoResponse THEN h ELSE << >>]
    /\ last' = NoLast
    /\ UNCHANGED << storeVars, pending, txActive, result, batch, seen, crudCount >>

\* A row-level except clause that records nothing.
Failed_dropped(res, e) == res

\* result.failed.append({'row': str(result.total), 'error': str(e)}); the
\* row number is kept as the number whose decimal numeral str() gives.
Failed(res, e) ==
    [res EXCEPT !.failed = Append(@, [row |-> res.total, error |-> e])]

\* A counter that goes up by one for every bulk write.
add_successful_one(res, b) == [res EXCEPT !.successful = @ + 1]

\* result.successful += len(batch)
add_successful(res, b) == [res EXCEPT !.successful = @ + Len(b)]

\* if len(batch) >= batch_size
flush_due(b) == Len(b) >= batch_size

\* One iteration of "for row in reader" (customer_router.py:183-208,
\* location_router.py:321-359).
import_row(r) ==
    /\ pc[r] = "rows"
    /\ result[r].total < MaxRows
    /\ \E row \in Rows(kind[r]), fault \in BOOLEAN :
        LET res == [result[r] EXCEPT !.total = @ + 1]
            id  == uuid4(r, res.total)
            v   == validate_row(kind[r], header[r], row, id, import_utcnow)
            b   == Append(batch[r], v.rec)
            exc == bulk_save_objects(kind[r], b, Table(kind[r]) \cup pending[r],
                                     txActive[r], fault)
            tbl == IF v.ok /\ flush_due(b) /\ exc = ""
                   THEN written(Table(kind[r]), Range(b)) ELSE Table(kind[r])
        IN  /\ customers' = IF kind[r] = "customers" THEN tbl ELSE customers
            /\ locations' = IF kind[r] = "locations" THEN tbl ELSE locations
            /\ IF ~v.ok THEN
                   /\ result' = [result EXCEPT ![r] = Failed(res, v.error)]
                   /\ seen' = [seen EXCEPT ![r] = Append(@, [row |-> row, id |-> NoId])]
                   /\ UNCHANGED << batch, pending, txActive, keys >>
               ELSE
                   /\ seen' = [seen EXCEPT ![r] = Append(@, [row |-> row, id |-> id])]
                   /\ keys' = IF kind[r] = "customers"
                              THEN [keys EXCEPT ![r] = @ \cup {v.rec.email}]
                              ELSE keys
                   /\ IF ~flush_due(b) THEN
                          /\ batch' = [batch EXCEPT ![r] = b]
                          /\ result' = [result EXCEPT ![r] = res]
                          /\ UNCHANGED << pending, txActive >>
                      ELSE IF exc = "" THEN
                          /\ pending' = [pending EXCEPT ![r] = @ \cup Range(b)]
                          /\ result' = [result EXCEPT ![r] = add_successful(res, b)]
                          /\ batch' = [batch EXCEPT ![r] = << >>]
                          /\ UNCHANGED txActive
                      ELSE
                          \* caught by the row's except clause; the failed write
                          \* has rolled the session's transaction back
                          /\ result' = [result EXCEPT ![r] = Failed(res, exc)]
                          /\ batch' = [batch EXCEPT ![r] = b]
                          /\ pending' = [pending EXCEPT ![r] = {}]
                          /\ txActive' = [txActive EXCEPT ![r] = FALSE]
    /\ UNCHANGED << cars, pc, kind, header, resp, db, crudVars >>

\* End of the stream: the remaining batch is written
\* (customer_router.py:210-212, location_router.py:362-364).
import_flush(r) ==
    /\ pc[r] = "rows"
    /\ \E fault \in BOOLEAN :
        LET exc == bulk_save_objects(kind[r], batch[r], Table(kind[r]) \cup pending[r],
                                     txActive[r], fault)
            tbl == IF batch[r] # << >> /\ exc = ""
                   THEN written(Table(kind[r]), Range(batch[r])) ELSE Table(kind[r])
        IN  /\ customers' = IF kind[r] = "customers" THEN tbl ELSE customers
            /\ locations' = IF kind[r] = "locations" THEN tbl ELSE locations
            /\ IF batch[r] = << >> THEN
                   /\ pc' = [pc EXCEPT ![r] = "commit"]
                   /\ UNCHANGED << result, pending, txActive, resp, header, batch, seen, db >>
               ELSE IF exc = "" THEN
                   /\ pending' = [pending EXCEPT ![r] = @ \cup Range(batch[r])]
                   /\ result' = [result EXCEPT ![r] = add_successful(@, batch[r])]
                   /\ pc' = [pc EXCEPT ![r] = "commit"]
                   /\ UNCHANGED << txActive, resp, header, batch, seen, db >>
               ELSE
                   Return(r, Error(import_except(exc)))
    /\ UNCHANGED << cars, kind, keys, crudVars >>

\* db.commit() and the return of the tally, or the except clause with its
\* db.rollback() (customer_router.py:214-223, location_router.py:366-375).
import_commit(r) ==
    /\ pc[r] = "commit"
    /\ \E fault \in BOOLEAN :
        LET exc == commit(kind[r], pending[r], Table(kind[r]), txActive[r], fault)
            tbl == IF exc = "" THEN committed(Table(kind[r]), pending[r])
                   ELSE rollback(Table(kind[r]), pending[r])
        IN  /\ customers' = IF kind[r] = "customers" THEN tbl ELSE customers
            /\ locations' = IF kind[r] = "locations" THEN tbl ELSE locations
            /\ IF exc = "" THEN
                   Return(r, [status |-> 200, detail |-> "", result |-> result[r]])
               ELSE
                   Return(r, Error(import_except(exc)))
    /\ UNCHANGED << cars, kind, keys, crudVars >>

(* ---------------------------------------------------------------------- *)
(* Single-record handlers: create, update, delete.                         *)
(* ---------------------------------------------------------------------- *)

\* Request bodies as the schema classes let them through (CustomerCreate,
\* CustomerUpdate, LocationCreate, LocationUpdate, CarCreate, CarUpdate).
\* fields is the set of fields the caller supplied: dict(exclude_unset=True)
\* keeps exactly these, the others hold the default of the schema (is_active,
\* whose default is None, is left out of a body that does not supply it).
\* The fields without a default are always supplied.
CustomerCreates ==
    { [fields |-> {"name", "email", "phone"}, name |-> "Ann", email |-> e,
       phone |-> "555", address |-> NoneVal, preferences |-> EmptyMap] :
         e \in {"a@x", "b@x"} }

CustomerUpdates ==
    { [fields |-> {"name", "email"} \cup f, name |-> "Eve", email |-> e,
       phone |-> NoneVal, address |-> NoneVal, preferences |-> EmptyMap] :
         e \in {"a@x", "b@x"}, f \in {{}} }
      \cup
    { [fields |-> {"name", "email", "is_active"}, name |-> "Eve", email |-> e,
       phone |-> NoneVal, address |-> NoneVal, preferences |-> EmptyMap,
       is_active |-> a] :
         e \in {"a@x", "b@x"}, a \in BOOLEAN }

LocationCreates ==
    { [fields |-> {"name", "address", "latitude", "longitude",
                   "is_pickup_location"},
       name |-> "Hub", address |-> "Main St 1", latitude |-> 593,
       longitude |-> 180, is_pickup_location |-> FALSE] }

LocationUpdates ==
    { [fields |-> {"name", "address", "latitude", "longitude"}, name |-> "Depot",
       address |-> "Main St 1", latitude |-> 593, longitude |-> 180,
       is_pickup_location |-> TRUE],
      [fields |-> {"name", "address", "latitude", "longitude", "is_active"},
       name |-> "Depot", address |-> "Main St 1", latitude |-> 593,
       longitude |-> 180, is_pickup_location |-> TRUE, is_active |-> FALSE] }

CarCreates ==
    { [fields |-> {"license_plate", "vin", "make", "location_id"},
       license_plate |-> p, vin |-> v, make |-> "Volvo", location_id |-> "L1"] :
         p \in {"ABC123", "XYZ789"}, v \in {"VIN1", "VIN2"} }

CarUpdates ==
    { [fields |-> {"license_plate", "vin", "make"}, license_plate |-> p,
       vin |-> "VIN1", make |-> "Saab", location_id |-> NoneVal] : p \in {"ABC123", "XYZ789"} }
      \cup
    { [fields |-> {"license_plate", "vin", "make", "is_active"},
       license_plate |-> p, vin |-> "VIN1", make |-> "Saab",
       location_id |-> NoneVal, is_active |-> TRUE] :
         p \in {"ABC123", "XYZ789"} }

\* Customer(id=..., **customer.dict(), created_at=...); is_active takes the
\* column default (Models/customer.py:19).
new_customer(id, body, now) ==
    [id |-> id, name |-> body.name, email |-> body.email, phone |-> body.phone,
     address |-> body.address, preferences |-> body.preferences,
     is_active |-> TRUE, created_at |-> now, updated_at |-> now]

\* Location(id=..., **location.dict(), created_at=...)
new_location(id, body, now) ==
    [id |-> id, name |-> body.name, address |-> body.address,
     latitude |-> body.latitude, longitude |-> body.longitude,
     is_pickup_location |-> body.is_pickup_location, is_active |-> TRUE,
     created_at |-> now, updated_at |-> now]

\* Car(id=..., **car.dict(), created_at=...)
new_car(id, body, now) ==
    [id |-> id, license_plate |-> body.license_plate, vin |-> body.vin,
     make |-> body.make, location_id |-> body.location_id, is_active |-> TRUE,
     created_at |-> now, updated_at |-> now]

\* update_data = body.dict(): every field of the schema, the defaults of the
\* fields the caller left out included.
setattr_all_with_defaults(rec, body) ==
    [f \in DOMAIN rec |-> IF f \in DOMAIN body \ {"fields"} THEN body[f] ELSE rec[f]]

\* update_data = body.dict(exclude_unset=True)
\* for field, value in update_data.items(): setattr(db_record, field, value)
setattr_all(rec, body) ==
    [f \in DOMAIN rec |-> IF f \in body.fields THEN body[f] ELSE rec[f]]

\* db_record.updated_at = datetime.utcnow()
touch(rec, now) == [rec EXCEPT !.updated_at = now]

\* db.query(Model).filter(Model.id == id).first(): the rows with that id
\* (none or one, id being the primary key).
query_by_id(table, id) == { x \in table : x.id = id }

\* get_customer / get_location / get_car: the status of GET /{id}.
get_by_id(table, id) == IF query_by_id(table, id) = {} THEN 404 ELSE 200

\* db.add(rec); db.commit(): the unique constraints decide.
insert_fails(k, table, rec) == \E x \in table : Collide(k, rec, x)

\* db.commit() of a changed record: the unique constraints decide.
update_fails(k, table, old, new) == \E x \in table \ {old} : Collide(k, new, x)

\* An identifier that no record has (GET, PUT, DELETE answer 404).
UnknownId == << 0, 0 >>

\* The request is answered.  found is what the handler's query by id
\* returned (db.query(...).first()), NoRecord when it returned None or the
\* handler makes no query.
Served(op, status, id, body, found) ==
    /\ last' = [op |-> op, status |-> status, id |-> id, body |-> body,
                found |-> found, db |-> get_db_exit(SessionLocal, status)]
    /\ crudCount' = crudCount + 1

\* customer_router.py:59-79
create_customer ==
    /\ \E body \in CustomerCreates, now \in utcnow :
        LET rec == new_customer(uuid4(0, crudCount + 1), body, now)
        IN  IF insert_fails("customers", customers, rec) THEN
                /\ customers' = rollback(customers, {rec})
                /\ Served("create_customer", 409, rec.id, body, NoRecord)
            ELSE
                /\ customers' = committed(customers, {rec})
                /\ Served("create_customer", 201, rec.id, body, NoRecord)
    /\ UNCHANGED << locations, cars, importVars >>

\* customer_router.py:106-134
update_customer ==
    /\ \E id \in { x.id : x \in customers } \cup {UnknownId}, body \in CustomerUpdates,
          now \in utcnow :
        IF query_by_id(customers, id) = {} THEN
            /\ Served("update_customer", 404, id, body, NoRecord)
            /\ UNCHANGED customers
        ELSE
            LET old == CHOOSE x \in query_by_id(customers, id) : TRUE
                new == touch(setattr_all(old, body), now)
            IN  IF update_fails("customers", customers, old, new) THEN
                    /\ customers' = rollback(customers, {new})
                    /\ Served("update_customer", 409, id, body, old)
                ELSE
                    /\ customers' = committed(customers \ {old}, {new})
                    /\ Served("update_customer", 200, id, body, old)
    /\ UNCHANGED << locations, cars, importVars >>

\* db.delete(customer); db.commit()
hard_delete(table, old, now) == table \ {old}

\* customer.is_active = not customer.is_active
soft_delete_toggle(table, old, now) ==
    (table \ {old}) \cup {touch([old EXCEPT !.is_active = ~old.is_active], now)}

\* customer.is_active = False; customer.updated_at = datetime.utcnow();
\* db.commit()
soft_delete(table, old, now) ==
    (table \ {old}) \cup {touch([old EXCEPT !.is_active = FALSE], now)}

\* customer_router.py:136-150
delete_customer ==
    /\ \E id \in { x.id : x \in customers } \cup {UnknownId}, now \in utcnow :
        IF query_by_id(customers, id) = {} THEN
            /\ Served("delete_customer", 404, id, [fields |-> {}], NoRecord)
            /\ UNCHANGED customers
        ELSE
            /\ customers' = soft_delete(customers,
                                CHOOSE x \in query_by_id(customers, id) : TRUE, now)
            /\ Served("delete_customer", 204, id, [fields |-> {}],
                      CHOOSE x \in query_by_id(customers, id) : TRUE)
    /\ UNCHANGED << locations, cars, importVars >>

\* location_router.py:81-106
create_location ==
    /\ \E body \in LocationCreates, now \in utcnow :
        LET rec == new_location(uuid4(0, crudCount + 1), body, now)
        IN  IF insert_fails("locations", locations, rec) THEN
                /\ locations' = rollback(locations, {rec})
                /\ Served("create_location", 409, rec.id, body, NoRecord)
            ELSE
                /\ locations' = committed(locations, {rec})
                /\ Served("create_location", 201, rec.id, body, NoRecord)
    /\ UNCHANGED << customers, cars, importVars >>

\* location_router.py:206-237
update_location ==
    /\ \E id \in { x.id : x \in locations } \cup {UnknownId}, body \in LocationUpdates,
          now \in utcnow :
        IF query_by_id(locations, id) = {} THEN
            /\ Served("update_location", 404, id, body, NoRecord)
            /\ UNCHANGED locations
        ELSE
            LET old == CHOOSE x \in query_by_id(locations, id) : TRUE
                new == touch(setattr_all(old, body), now)
            IN  IF update_fails("locations", locations, old, new) THEN
                    /\ locations' = rollback(locations, {new})
                    /\ Served("update_location", 409, id, body, old)
                ELSE
                    /\ locations' = committed(locations \ {old}, {new})
                    /\ Served("update_location", 200, id, body, old)
    /\ UNCHANGED << customers, cars, importVars >>

\* location_router.py:255-272
delete_location ==
    /\ \E id \in { x.id : x \in locations } \cup {UnknownId}, now \in utcnow :
        IF query_by_id(locations, id) = {} THEN
            /\ Served("delete_location", 404, id, [fields |-> {}], NoRecord)
            /\ UNCHANGED locations
        ELSE
            /\ locations' = soft_delete(locations,
                                CHOOSE x \in query_by_id(locations, id) : TRUE, now)
            /\ Served("delete_location", 204, id, [fields |-> {}],
                      CHOOSE x \in query_by_id(locations, id) : TRUE)
    /\ UNCHANGED << customers, cars, importVars >>

\* car_router.py:49-69
create_car ==
    /\ \E body \in CarCreates, now \in utcnow :
        LET rec == new_car(uuid4(0, crudCount + 1), body, now)
        IN  IF insert_fails("cars", cars, rec) THEN
                /\ cars' = rollback(cars, {rec})
                /\ Served("create_car", 409, rec.id, body, NoRecord)
            ELSE
                /\ cars' = committed(cars, {rec})
                /\ Served("create_car", 201, rec.id, body, NoRecord)
    /\ UNCHANGED << customers, locations, importVars >>

\* car_router.py:102-130
update_car ==
    /\ \E id \in { x.id : x \in cars } \cup {UnknownId}, body \in CarUpdates,
          now \in utcnow :
        IF query_by_id(cars, id) = {} THEN
            /\ Served("update_car", 404, id, body, NoRecord)
            /\ UNCHANGED cars
        ELSE
            LET old == CHOOSE x \in query_by_id(cars, id) : TRUE
                new == touch(setattr_all(old, body), now)
            IN  IF update_fails("cars", cars, old, new) THEN
                    /\ cars' = rollback(cars, {new})
                    /\ Served("update_car", 409, id, body, old)
                ELSE
                    /\ cars' = committed(cars \ {old}, {new})
                    /\ Served("update_car", 200, id, body, old)
    /\ UNCHANGED << customers, locations, importVars >>

\* car_router.py:132-146
delete_car ==
    /\ \E id \in { x.id : x \in cars } \cup {UnknownId}, now \in utcnow :
        IF query_by_id(cars, id) = {} THEN
            /\ Served("delete_car", 404, id, [fields |-> {}], NoRecord)
            /\ UNCHANGED cars
        ELSE
            /\ cars' = soft_delete(cars, CHOOSE x \in query_by_id(cars, id) : TRUE, now)
            /\ Served("delete_car", 204, id, [fields |-> {}],
                      CHOOSE x \in query_by_id(cars, id) : TRUE)
    /\ UNCHANGED << customers, locations, importVars >>

(* ---------------------------------------------------------------------- *)
(* Specifications.                                                         *)
(* ---------------------------------------------------------------------- *)

\* No import request is between its start and its response.
Quiet == \A r \in Reqs : pc[r] \in {"idle", "done"}

\* main.py:92-94 runs one server process: a handler is an async function
\* that awaits nothing once the upload is read, so requests are served one
\* after the other.
Next ==
    \/ \E r \in Reqs : Quiet /\ import_start(r, {"customers", "locations"})
    \/ \E r \in Reqs : import_row(r)
    \/ \E r \in Reqs : import_flush(r)
    \/ \E r \in Reqs : import_commit(r)

Spec == Init /\ [][Next]_vars

\* A single-record request is served when no import is in progress; a run
\* has at most limit of them.
Serve(limit) == Quiet /\ crudCount < limit

\* Single-record requests and imports, served one after the other.
NextCrud ==
    \/ Quiet /\ import_start(1, {"customers", "locations"})
    \/ import_row(1)
    \/ import_flush(1)
    \/ import_commit(1)
    \/ Serve(MaxCrud) /\ create_customer
    \/ Serve(MaxCrud) /\ update_customer
    \/ Serve(MaxCrud) /\ delete_customer
    \/ Serve(MaxCrud) /\ create_location
    \/ Serve(MaxCrud) /\ update_location
    \/ Serve(MaxCrud) /\ delete_location
    \/ Serve(MaxCrud) /\ create_car
    \/ Serve(MaxCrud) /\ update_car
    \/ Serve(MaxCrud) /\ delete_car

SpecCrud == Init /\ [][NextCrud]_vars

\* Single-record requests alone, one more of them than beside an import.
NextRecords ==
    \/ Serve(MaxCrud + 1) /\ create_customer
    \/ Serve(MaxCrud + 1) /\ update_customer
    \/ Serve(MaxCrud + 1) /\ delete_customer
    \/ Serve(MaxCrud + 1) /\ create_location
    \/ Serve(MaxCrud + 1) /\ update_location
    \/ Serve(MaxCrud + 1) /\ delete_location
    \/ Serve(MaxCrud + 1) /\ create_car
    \/ Serve(MaxCrud + 1) /\ update_car
    \/ Serve(MaxCrud + 1) /\ delete_car

SpecRecords == Init /\ [][NextRecords]_vars

\* Two workers over one database: two customer imports whose storage
\* operations interleave.
Workers == {1, 2}

NextWorkers ==
    \/ \E r \in Workers : import_start(r, {"customers"})
    \/ \E r \in Workers : import_row(r)
    \/ \E r \in Workers : import_flush(r)
    \/ \E r \in Workers : import_commit(r)

SpecWorkers == Init /\ [][NextWorkers]_vars

(* ---------------------------------------------------------------------- *)
(* Properties.                                                             *)
(* ---------------------------------------------------------------------- *)

\* What bulk_save_objects and commit raise.
StorageErrors == {"InvalidRequestError", "OperationalError", "IntegrityError"}

\* The committed records whose identifier was drawn by import request r.
StoreOf(r) == { x \in customers \cup locations : x.id[1] = r }

Tallied(r) == pc[r] = "done" /\ resp[r].status = 200

Aborted(r) == pc[r] = "done" /\ resp[r].status >= 400

\* C1: an import that returns a tally has counted every data row exactly
\* once: successful + len(failed) = total, whatever the bulk writes did.
C1_TallyCountsEveryRowOnce ==
    \A r \in Reqs :
        Tallied(r) =>
            resp[r].result.successful + Len(resp[r].result.failed)
                = resp[r].result.total

\* A customer import answered with a tally that has rows of both outcomes,
\* after a threshold flush.
C1_Witness ==
    \E r \in Reqs :
        /\ Tallied(r) /\ kind[r] = "customers"
        /\ resp[r].result.successful >= batch_size
        /\ Len(resp[r].result.failed) > 0

C2_State ==
    \A r \in Reqs :
        \* nothing of an import is in the store before its commit or after
        \* its failure
        /\ (pc[r] \in {"rows", "commit"} \/ Aborted(r)) => StoreOf(r) = {}
        \* an error response carries no tally
        /\ Aborted(r) => resp[r].result = EmptyResult
        \* a tally is not returned after a failed bulk write
        /\ Tallied(r) =>
               \A i \in DOMAIN resp[r].result.failed :
                   resp[r].result.failed[i].error \notin StorageErrors
        /\ ~txActive[r] => pc[r] = "rows"

C2_Step ==
    \A r \in Reqs :
        (pc[r] \in {"rows", "commit"} /\ Aborted(r)') =>
            /\ customers' = customers
            /\ locations' = locations
            /\ cars' = cars

\* C2: an import whose bulk write or commit fails ends with one error
\* response and no tally, and the store is as it was before the call: none
\* of the call's rows is persisted, those of earlier batches included.
C2_FailedImportPersistsNothing == []C2_State /\ [][C2_Step]_vars

\* A customer import rejected by the store for an email the store holds.
C2_Witness ==
    \E r \in Reqs :
        /\ Aborted(r) /\ kind[r] = "customers"
        /\ resp[r].detail = "IntegrityError"
        /\ customers # {}
        /\ StoreOf(r) = {}

\* C3: a bulk write the store rejects ends the import at once: the
\* rejection is no row-level entry of failed, the row loop does not go on,
\* and the rejected records are not kept for another write.
C3_RejectedWriteEndsImport ==
    \A r \in Reqs :
        /\ \A i \in DOMAIN result[r].failed :
               result[r].failed[i].error \notin StorageErrors
        /\ ~txActive[r] => pc[r] # "rows"
        /\ ~txActive[r] => batch[r] = << >>

\* The rows read so far that the import's row validator accepts, and the
\* record it builds for row i.
ValidRows(r) ==
    { i \in DOMAIN seen[r] :
        validate_row(kind[r], header[r], seen[r][i].row, uuid4(r, i), import_utcnow).ok }

RecordOf(r, i) == validate_row(kind[r], header[r], seen[r][i].row, uuid4(r, i), import_utcnow).rec

C4_Step ==
    \A r \in Reqs :
        (pc[r] = "commit" /\ Tallied(r)') =>
            LET added == IF kind[r] = "customers" THEN customers' \ customers
                         ELSE locations' \ locations
            IN  /\ added = { RecordOf(r, i) : i \in ValidRows(r) }
                /\ Cardinality(added) = Cardinality(ValidRows(r))
                /\ Cardinality({ x.id : x \in added }) = Cardinality(added)
                /\ resp'[r].result.successful = Cardinality(added)

\* C4: an import that returns a tally has added to the store exactly one
\* record for every row that passed validation, each under an id of its
\* own, and successful is their number; the rows of the last, partial
\* batch are among them.
C4_TallyMatchesPersistedRows == [][C4_Step]_vars

\* A tally after one threshold flush and a final batch of one row.
C4_Witness ==
    \E r \in Reqs :
        /\ Tallied(r)
        /\ resp[r].result.successful = batch_size + 1
        /\ Cardinality(StoreOf(r)) = batch_size + 1

ClientFaults ==
    { "Only TSV files are supported", "UnicodeDecodeError",
      "400: Missing required fields" }

\* C5: a failed import is answered 400 when the file is at fault (name not
\* ending in .tsv, undecodable content, header lacking a required column)
\* and 500 only when the storage layer failed.
C5_ClientFaultsAnswered400 ==
    \A r \in Reqs :
        Aborted(r) =>
            /\ resp[r].detail \in ClientFaults => resp[r].status = 400
            /\ resp[r].status = 500 => resp[r].detail \in StorageErrors

\* The columns an import file must have.
RequiredColumns(k) ==
    IF k = "customers" THEN {"name", "email"}
    ELSE {"name", "address", "latitude", "longitude"}

C6_State ==
    \A r \in Reqs :
        /\ pc[r] \in {"rows", "commit"} =>
               RequiredColumns(kind[r]) \subseteq Range(header[r])
        /\ resp[r].detail = "400: Missing required fields" =>
               /\ Aborted(r)
               /\ resp[r].result = EmptyResult
               /\ StoreOf(r) = {}

C6_Step ==
    \A r \in Reqs :
        (pc[r] = "idle" /\ pc'[r] = "done") =>
            /\ result'[r].total = 0 /\ seen'[r] = << >> /\ pending'[r] = {}
            /\ customers' = customers /\ locations' = locations
            /\ Aborted(r)'

\* C6: a header that lacks a required column ends the import before any
\* data row is processed: total is 0, nothing is written, and the caller
\* gets an error and no tally.
C6_MissingColumnAbortsBeforeRows == []C6_State /\ [][C6_Step]_vars

\* A location import refused for its header.
C6_Witness ==
    \E r \in Reqs :
        /\ Aborted(r) /\ kind[r] = "locations"
        /\ resp[r].detail = "400: Missing required fields"

\* A latitude or longitude that is no number or lies outside [-90, 90] /
\* [-180, 180].
BadCoordinates(row) ==
    LET lat  == ParseFloat(row.latitude)
        long == ParseFloat(row.longitude)
    IN  \/ ~lat.ok \/ ~long.ok
        \/ lat.val < -900 \/ lat.val > 900
        \/ long.val < -1800 \/ long.val > 1800

FailedRows(res) == { res.failed[j].row : j \in DOMAIN res.failed }

C7_State ==
    \A r \in Reqs :
        (kind[r] = "locations" /\ pc[r] \in {"rows", "commit"}) =>
            \A i \in DOMAIN seen[r] :
                IF BadCoordinates(seen[r][i].row) THEN
                    /\ i \in FailedRows(result[r])
                    /\ \A x \in Range(batch[r]) \cup pending[r] \cup locations :
                           x.id # uuid4(r, i)
                ELSE
                    \* a bad row elsewhere in the file takes no valid row
                    \* out of the import
                    (i \in ValidRows(r) /\ txActive[r]) =>
                        RecordOf(r, i) \in Range(batch[r]) \cup pending[r]

C7_Step ==
    \A r \in Reqs :
        (kind[r] = "locations" /\ pc[r] = "commit" /\ Tallied(r)') =>
            /\ \A i \in DOMAIN seen[r] :
                   IF BadCoordinates(seen[r][i].row) THEN
                       /\ i \in FailedRows(resp'[r].result)
                       /\ \A x \in locations' : x.id # uuid4(r, i)
                   ELSE
                       i \in ValidRows(r) => RecordOf(r, i) \in locations'
            /\ resp'[r].result.successful = Cardinality(ValidRows(r))

\* C7: in a location import a row with a non-numeric or out-of-range
\* coordinate is listed in failed under its 1-based row number and is
\* neither batched nor persisted, and the valid rows before and after it
\* are persisted and counted in successful when the import returns.
C7_BadCoordinatesRowAlone == []C7_State /\ [][C7_Step]_vars

\* A tally whose second row had bad coordinates, the first and third rows
\* being persisted.
C7_Witness ==
    \E r \in Reqs :
        /\ Tallied(r) /\ kind[r] = "locations"
        /\ resp[r].result.failed = << [row |-> 2, error |-> "Invalid coordinates"] >>
        /\ resp[r].result.successful = 2
        /\ { x.id : x \in StoreOf(r) } = { uuid4(r, 1), uuid4(r, 3) }

UniqueEmails == \A x, y \in customers : x.email = y.email => x.id = y.id

\* C8: of two customer imports in flight together whose files hold the
\* same email at most one commits; the other is aborted with none of its
\* rows persisted, and the store never holds two records with one email.
C8_ConcurrentImportsOneWinner ==
    /\ UniqueEmails
    /\ \A r, s \in Reqs :
           (r # s /\ keys[r] \cap keys[s] # {}) => ~(Tallied(r) /\ Tallied(s))
    /\ \A r \in Reqs : Aborted(r) => StoreOf(r) = {}

\* Two overlapping imports with a common email: the first committed, the
\* second was refused by the unique constraint.
C8_Witness ==
    /\ Tallied(1) /\ Aborted(2)
    /\ resp[2].detail = "IntegrityError"
    /\ keys[1] \cap keys[2] # {}
    /\ StoreOf(1) # {} /\ StoreOf(2) = {}

C9_Step ==
    ( /\ crudCount' = crudCount + 1
      /\ last'.op \in {"create_customer", "update_customer"}
      /\ last'.status # 404
      /\ \E x \in customers : x.id # last'.id /\ x.email = last'.body.email )
    => (last'.status = 409 /\ customers' = customers)

\* C9: no two stored customers share an email, active or not: a create or
\* an update that would give a customer the email of another stored
\* customer, a soft-deleted one included, is answered 409.
C9_EmailUniqueAmongAllCustomers ==
    [](\A x, y \in customers : x.email = y.email => x = y) /\ [][C9_Step]_vars

\* An update refused for the email of a soft-deleted customer.
C9_Witness ==
    /\ last.op = "update_customer" /\ last.status = 409
    /\ \E x \in customers :
           x.id # last.id /\ ~x.is_active /\ x.email = last.body.email

Deletes == {"delete_customer", "delete_location", "delete_car"}

C10_Step ==
    /\ \A x \in customers : get_by_id(customers', x.id) = 200
    /\ \A x \in locations : get_by_id(locations', x.id) = 200
    /\ \A x \in cars : get_by_id(cars', x.id) = 200
    /\ (crudCount' = crudCount + 1 /\ last'.op \in Deletes /\ last'.status = 204) =>
           \E x \in customers \cup locations \cup cars :
               /\ x.id = last'.id
               /\ \E y \in customers' \cup locations' \cup cars' :
                      y = [x EXCEPT !.is_active = FALSE, !.updated_at = y.updated_at]
               /\ Cardinality(customers') = Cardinality(customers)
               /\ Cardinality(locations') = Cardinality(locations)
               /\ Cardinality(cars') = Cardinality(cars)

\* C10: a committed record stays in the store and can be fetched by its
\* id whatever requests follow: delete only sets is_active to false.
C10_NoRecordIsRemoved == [][C10_Step]_vars

\* A car that was deleted and is still stored, inactive.
C10_Witness ==
    /\ last.op = "delete_car" /\ last.status = 204
    /\ \E x \in cars : x.id = last.id /\ ~x.is_active

Updates == {"update_customer", "update_location", "update_car"}

\* The record with that id, before and after a step.
Before(id) == CHOOSE x \in customers \cup locations \cup cars : x.id = id

After(id) == CHOOSE x \in customers' \cup locations' \cup cars' : x.id = id

\* A step that serves an update with status 200.
Updated ==
    crudCount' = crudCount + 1 /\ last'.op \in Updates /\ last'.status = 200

C11_Step ==
    Updated =>
        LET old == Before(last'.id)
            new == After(last'.id)
        IN  /\ \A f \in DOMAIN old \cap last'.body.fields : new[f] = last'.body[f]
            /\ \A f \in DOMAIN old \ (last'.body.fields \cup {"updated_at"}) :
                   new[f] = old[f]
            /\ new.updated_at \in utcnow
            /\ customers' \ {new} = customers \ {old}
            /\ locations' \ {new} = locations \ {old}
            /\ cars' \ {new} = cars \ {old}

DeleteOfInactive ==
    /\ crudCount' = crudCount + 1
    /\ last'.op \in Deletes
    /\ \E x \in customers \cup locations \cup cars : x.id = last'.id /\ ~x.is_active

\* C12 as stated: deleting an entity that is inactive already returns 204
\* and leaves is_active false, and delete applied twice has the effect of
\* delete applied once: the second delete changes nothing.
C12_DeleteTwiceIsDeleteOnce ==
    [][DeleteOfInactive =>
         /\ last'.status = 204
         /\ ~After(last'.id).is_active
         /\ After(last'.id) = Before(last'.id)
         /\ storeVars' = storeVars]_vars

C12_Step ==
    DeleteOfInactive =>
        LET old == Before(last'.id)
            new == After(last'.id)
        IN  /\ last'.status = 204
            /\ ~new.is_active
            /\ new = [old EXCEPT !.updated_at = new.updated_at]
            /\ new.updated_at \in utcnow
            /\ customers' \ {new} = customers \ {old}
            /\ locations' \ {new} = locations \ {old}
            /\ cars' \ {new} = cars \ {old}

\* C12 (amended): deleting an entity that is inactive already returns 204
\* and leaves is_active false; the second delete changes no field of the
\* record but updated_at, which it sets to the time of the request, and no
\* other record.
C12_SecondDeleteOnlyTouchesTimestamp == [][C12_Step]_vars

\* A location deleted a second time: the handler found it inactive and
\* answered 204.
C12_Witness ==
    /\ last.op = "delete_location" /\ last.status = 204
    /\ last.found # NoRecord
    /\ \E x \in locations :
           /\ x.id = last.id /\ ~x.is_active
           /\ last.found = [x EXCEPT !.updated_at = last.found.updated_at]
           /\ x.updated_at > last.found.updated_at
           /\ last.found.updated_at > x.created_at

C13_State ==
    \A r \in Reqs : pc[r] = "rows" => Len(batch[r]) < batch_size

\* successful grows only with a bulk write that returned, and by the size
\* of the batch that write put into the transaction.
C13_Step ==
    \A r \in Reqs :
        ( /\ pc[r] = "rows" /\ pc'[r] \in {"rows", "commit"}
          /\ result'[r].successful # result[r].successful ) =>
            /\ txActive[r] /\ txActive'[r]
            /\ pending[r] \subseteq pending'[r]
            /\ result'[r].successful - result[r].successful
                   = Cardinality(pending'[r] \ pending[r])
            /\ result'[r].successful - result[r].successful \in 1..batch_size

\* C13: when a valid row brings the accumulator to the threshold, the batch
\* is written as one bulk write and the accumulator is emptied before the
\* next row is read, so it never holds batch_size records or more when a row
\* is read; and successful is increased only by the size of a batch whose
\* bulk write returned without error.
C13_AccumulatorBelowThreshold == []C13_State /\ [][C13_Step]_vars

\* The second half of C13 alone.
C13_CountedAfterWrite == [][C13_Step]_vars

Released == [acquired |-> 1, closed |-> 1]

\* C14: every request acquires one session and releases it exactly once by
\* the time it is answered, whatever the answer: a result, a 404, 409 or 400
\* raised by the handler, or the 500 of an import aborted after rollback.
\* Until then the session is open; no answered request holds an open one.
C14_SessionReleasedOnEveryExit ==
    /\ \A r \in Reqs :
           /\ pc[r] = "idle" => db[r] = NoSession
           /\ pc[r] \in {"rows", "commit"} => db[r] = SessionLocal
           /\ pc[r] = "done" => db[r] = Released
    /\ last.op # "none" => last.db = Released

\* A create refused with 409 after an import that the store aborted: both
\* sessions are closed.
C14_Witness ==
    /\ last.op = "create_customer" /\ last.status = 409 /\ last.db = Released
    /\ Aborted(1) /\ resp[1].detail = "IntegrityError" /\ db[1] = Released

\* The row has a value for both required columns.
HasRequired(h, row) ==
    Cell(h, row, "name") # NoneVal /\ Cell(h, row, "email") # NoneVal

\* The row has no value for the column: the header lacks the column, or the
\* line ends before it.
NoValue(h, row, col) == Cell(h, row, col) \in {Absent, NoneVal}

\* Row i of customer import r was accepted: failed has no entry of the row
\* validator for it, a record was built, and the record (as long as the
\* transaction stands) has null for the optional columns without a value
\* and the empty map for preferences that are no JSON.
C15_Accepted(r, i) ==
    LET h   == header[r]
        row == seen[r][i].row
    IN  /\ \A j \in DOMAIN result[r].failed :
               result[r].failed[j].row = i =>
                   result[r].failed[j].error \in StorageErrors
        /\ seen[r][i].id = uuid4(r, i)
        /\ txActive[r] =>
               \E x \in Range(batch[r]) \cup pending[r] :
                   /\ x.id = uuid4(r, i)
                   /\ NoValue(h, row, "phone") => x.phone = NoneVal
                   /\ NoValue(h, row, "address") => x.address = NoneVal
                   /\ NoValue(h, row, "preferences") => x.preferences = EmptyMap
                   /\ ~json_loads(Cell(h, row, "preferences")).ok =>
                          x.preferences = EmptyMap

\* C15: in a customer import a row with no value for an optional column
\* (phone, address, preferences), the column missing from the header or the
\* row shorter than the header, is accepted with null in that field (the
\* empty map for preferences) and is not reported in failed; preferences
\* that are no valid JSON give the empty map and never fail the row.
C15_OptionalColumnsNeverFailARow ==
    \A r \in Reqs :
        (kind[r] = "customers" /\ pc[r] \in {"rows", "commit"}) =>
            \A i \in DOMAIN seen[r] :
                HasRequired(header[r], seen[r][i].row) => C15_Accepted(r, i)

\* C15 without the rows that end before a phone or address column of the
\* header.
C15_ExceptShortRows ==
    \A r \in Reqs :
        (kind[r] = "customers" /\ pc[r] \in {"rows", "commit"}) =>
            \A i \in DOMAIN seen[r] :
                ( /\ HasRequired(header[r], seen[r][i].row)
                  /\ Cell(header[r], seen[r][i].row, "phone") # NoneVal
                  /\ Cell(header[r], seen[r][i].row, "address") # NoneVal )
                => C15_Accepted(r, i)

\* The request served by the step is a create or an update whose body
\* carries a unique key (email; license_plate or vin) of another stored
\* record.
Conflict ==
    \/ /\ last'.op \in {"create_customer", "update_customer"}
       /\ \E x \in customers : x.id # last'.id /\ x.email = last'.body.email
    \/ /\ last'.op \in {"create_car", "update_car"}
       /\ \E x \in cars :
              /\ x.id # last'.id
              /\ \/ x.license_plate = last'.body.license_plate
                 \/ x.vin = last'.body.vin

C16_Step ==
    crudCount' = crudCount + 1 =>
        /\ (Conflict /\ last'.status # 404) => last'.status = 409
        /\ last'.status = 409 =>
               /\ Conflict
               /\ customers' = customers /\ locations' = locations /\ cars' = cars
               \* what a later request reads under the id: nothing for a
               \* refused create, the record as it was found for a refused
               \* update
               /\ last'.op \in {"create_customer", "create_car"} =>
                      get_by_id(customers' \cup cars', last'.id) = 404
               /\ last'.op \in {"update_customer", "update_car"} =>
                      query_by_id(customers' \cup cars', last'.id) = {last'.found}

\* C16: a create or an update refused for a uniqueness conflict returns 409
\* and leaves every stored record as it was before the request: the insert
\* or the field changes made in the session are rolled back and no later
\* request sees them.
C16_ConflictLeavesStoreUnchanged == [][C16_Step]_vars

\* A car update refused for the license plate of another car: the car is
\* stored as it was created.
C16_Witness ==
    /\ last.op = "update_car" /\ last.status = 409
    /\ last.found \in cars /\ last.found.make = "Volvo"
    /\ last.found.updated_at = last.found.created_at
    /\ \E x \in cars :
           x.id # last.id /\ x.license_plate = last.body.license_plate

====
